---- MODULE Spec2Model ----
(***************************************************************************)
(* Model of the label printer (main.go): the form's entry widgets, the     *)
(* Generate and Clear handlers, and one generation pass of                 *)
(* LabelGenerator.generatePDF: validation, the greedy word wrap of         *)
(* drawDescription, the bottom fields, the QR step and the save.           *)
(*                                                                         *)
(* A string is a sequence of one-character strings.  Lengths are integers  *)
(* in units of 1/1200 inch, in which every coordinate of the program and   *)
(* every Courier string width is a whole number.                           *)
(***************************************************************************)
EXTENDS Integers, Sequences, FiniteSets, TLC

\* ------------------------------------------------------------ bounds
\* Descriptions explored by WrapSpec: up to MaxVaried words of any kind,
\* followed by up to MaxFill long words.
MaxVaried == 2
MaxFill == 18
\* Character counts of the three kinds of word.
ShortLen == 10
LongLen == 50
HugeLen == 70

\* ------------------------------------------------------------ constants
\* UnitStr "in": one inch, in model units.
Inch == 1200

pageWidthInches == 4 * Inch
pageHeightInches == 6 * Inch
marginInches == (125 * Inch) \div 1000

titleFontSize == 48
descFontSize == 10
priceFontSize == 14
skuFontSize == 10
barcodeFontSize == 8

\* createPDF: orientation "L" swaps the custom size, so the page is
\* pageHeightInches wide and pageWidthInches tall.
pageW == pageHeightInches
pageH == pageWidthInches

\* layoutPDF's locals.
contentWidth == pageHeightInches - (2 * marginInches)
contentHeight == pageWidthInches - (2 * marginInches)

\* drawDescription's locals.
descStartY == marginInches + (625 * Inch) \div 1000
descLineStep == (25 * Inch) \div 100
descCellHeight == (2 * Inch) \div 10
maxWidth == contentWidth - (1 * Inch) \div 10
maxY == pageHeightInches - marginInches - 1 * Inch

\* ------------------------------------------------------------ strings
DefaultTitle == <<"S", "a", "m", "p", "l", "e", " ", "E", "q", "u", "i", "p", "m", "e", "n", "t", " ", "T", "a", "g">>
DefaultDescription == <<"T", "h", "i", "s", " ", "i", "s", " ", "a", " ", "s", "a", "m", "p", "l", "e", " ", "i", "t", "e", "m", " ", "d", "e", "s", "c", "r", "i", "p", "t", "i", "o", "n", " ", "t", "h", "a", "t", " ", "c", "a", "n", " ", "s", "p", "a", "n", " ", "m", "u", "l", "t", "i", "p", "l", "e", " ", "l", "i", "n", "e", "s", ".", " ", "W", "e", " ", "c", "a", "n", " ", "s", "e", "e", " ", "t", "h", "i", "s", " ", "a", "s", " ", "t", "h", "e", " ", "d", "e", "f", "a", "u", "l", "t", " ", "d", "e", "s", "c", "r", "i", "p", "t", "i", "o", "n", " ", "i", "s", " ", "q", "u", "i", "t", "e", " ", "l", "o", "n", "g", ".">>
DefaultReturnLocation == <<"E", "n", "g", "i", "n", "e", "e", "r", "i", "n", "g", " ", "H", "a", "l", "l", " ", "3", "1", "7">>
DefaultSKU == <<"S", "K", "U", "1", "2", "3", "4", "5", "6">>
DefaultBarcode == <<"1", "2", "3", "4", "5", "6", "7", "8", "9", "0", "1", "2", "3">>
DefaultCheckoutDate == <<"0", "1", "/", "1", "5", "/", "2", "0", "2", "4">>
DefaultReturnDate == <<"0", "1", "/", "2", "2", "/", "2", "0", "2", "4">>
DefaultURL1 == <<"h", "t", "t", "p", "s", ":", "/", "/", "e", "x", "a", "m", "p", "l", "e", ".", "c", "o", "m", "/", "p", "r", "o", "d", "u", "c", "t", "1">>

\* The entry texts main() sets on construction.
DefaultEntries ==
  [Title |-> DefaultTitle, Description |-> DefaultDescription,
   ReturnLocation |-> DefaultReturnLocation, SKU |-> DefaultSKU,
   Barcode |-> DefaultBarcode, CheckoutDate |-> DefaultCheckoutDate,
   ReturnDate |-> DefaultReturnDate, URL1 |-> DefaultURL1]

\* The entry texts clearFields sets.
ClearedEntries ==
  [Title |-> <<>>, Description |-> <<>>, ReturnLocation |-> <<>>, SKU |-> <<>>,
   Barcode |-> <<>>, CheckoutDate |-> <<>>, ReturnDate |-> <<>>, URL1 |-> <<>>]

qrFilename == <<"qr_1.png">>
qrLabel == <<"F", "i", "n", "a", "l", "i", "z", "e", " ", "R", "e", "s", "t", "o", "c", "k">>

IsSpace(c) == c \in {" ", "\t", "\n", "\r"}

\* strings.TrimSpace
RECURSIVE TrimLeft(_)
TrimLeft(s) ==
  IF s # <<>> /\ IsSpace(Head(s)) THEN TrimLeft(Tail(s)) ELSE s

RECURSIVE TrimRight(_)
TrimRight(s) ==
  IF s # <<>> /\ IsSpace(s[Len(s)]) THEN TrimRight(SubSeq(s, 1, Len(s) - 1)) ELSE s

TrimSpace(s) == TrimRight(TrimLeft(s))

\* strings.Fields: the maximal runs of non-space characters, in order.
RECURSIVE Fields(_)
Fields(s) ==
  IF s = <<>> THEN <<>>
  ELSE IF IsSpace(Head(s)) THEN Fields(Tail(s))
  ELSE LET ends == {i \in 1..Len(s) : IsSpace(s[i])}
           n == IF ends = {} THEN Len(s) + 1
                ELSE CHOOSE i \in ends : \A j \in ends : i <= j
       IN <<SubSeq(s, 1, n - 1)>> \o Fields(SubSeq(s, n, Len(s)))

\* strings.Join(words, " ")
RECURSIVE Join(_)
Join(ws) ==
  IF ws = <<>> THEN <<>>
  ELSE IF Len(ws) = 1 THEN ws[1]
  ELSE ws[1] \o <<" ">> \o Join(Tail(ws))

Lowers == <<"a", "b", "c", "d", "e", "f", "g", "h", "i", "j", "k", "l", "m", "n", "o", "p", "q", "r", "s", "t", "u", "v", "w", "x", "y", "z">>
Uppers == <<"A", "B", "C", "D", "E", "F", "G", "H", "I", "J", "K", "L", "M", "N", "O", "P", "Q", "R", "S", "T", "U", "V", "W", "X", "Y", "Z">>

ToUpper(c) ==
  IF \E i \in 1..26 : Lowers[i] = c
  THEN Uppers[CHOOSE i \in 1..26 : Lowers[i] = c] ELSE c

ToLower(c) ==
  IF \E i \in 1..26 : Uppers[i] = c
  THEN Lowers[CHOOSE i \in 1..26 : Uppers[i] = c] ELSE c

\* drawTitle's rewrite of the title: each field capitalised, joined by " ".
TitleCase(title) ==
  LET ws == Fields(title)
      cap(w) == [i \in 1..Len(w) |-> IF i = 1 THEN ToUpper(w[i]) ELSE ToLower(w[i])]
  IN Join([i \in 1..Len(ws) |-> cap(ws[i])])

\* strings.ReplaceAll(sku, " ", "_")
ReplaceSpaces(s) == [i \in 1..Len(s) |-> IF s[i] = " " THEN "_" ELSE s[i]]

\* generateFilename
generateFilename(sku) == <<"label_">> \o ReplaceSpaces(sku) \o <<".pdf">>

\* pdf.GetStringWidth under Courier at `size` points: every character is
\* 600/1000 of the font size wide, a point being 1/72 inch.
GetStringWidth(s, size) == Len(s) * ((600 * size * Inch) \div (1000 * 72))

\* One CellFormat (or Image, or Rect) call: the source line of the call, the
\* cell's corner and size, its text, alignment and font size.
Cell(at, x, y, w, h, txt, align, size) ==
  [at |-> at, x |-> x, y |-> y, w |-> w, h |-> h, txt |-> txt,
   align |-> align, size |-> size]

\* ------------------------------------------------------------ state
VARIABLES
  entries,      \* the texts of the eight entry widgets
  statusLabel,  \* the text of the status label
  dialog,       \* the dialog last shown by a handler
  files,        \* the names of the files in the working directory
  pc,           \* "idle", or the position of the generation pass
  data,         \* the LabelData snapshot of the pass
  pdfCreated,   \* whether createPDF has run in the pass
  pdfErr,       \* the PDF object's sticky error
  cells,        \* the drawing calls made on the PDF, in order
  words,        \* drawDescription: strings.Fields(description)
  wordIdx,      \* drawDescription: index of the next word
  line,         \* drawDescription: the line buffer
  yPos,         \* drawDescription: the cursor
  qr,           \* what drawQRCodes did in the pass
  saveIO,       \* what the file system did to the save
  result        \* what generatePDF returned

vars == <<entries, statusLabel, dialog, files, pc, data, pdfCreated, pdfErr,
          cells, words, wordIdx, line, yPos, qr, saveIO, result>>

NoQR == [created |-> FALSE, embedTried |-> FALSE, embedOK |-> FALSE,
         removed |-> FALSE, genErr |-> FALSE]

ErrTitle == <<"title is required">>
ErrSave == <<"failed to save PDF: ">>
NoResult == <<"-">>
Nil == <<"nil">>

\* ------------------------------------------------------------ generatePDF
\* generatePDF's validation: whether the title is rejected.
titleRejectedEmptyOnly(title) == title = <<>>

titleRejected(title) == TrimSpace(title) = <<>>

\* drawTitle's one cell.
titleCell(title) ==
  Cell(122, marginInches, marginInches + (1 * Inch) \div 10, contentWidth,
       (3 * Inch) \div 10, TitleCase(title), "C", titleFontSize)

\* ------------------------------------------------------------ drawDescription
\* truncateWord: drop the last character while the word is too wide.
RECURSIVE truncateWord(_, _)
truncateWord(word, mw) ==
  IF Len(word) > 0 /\ GetStringWidth(word, descFontSize) > mw
  THEN truncateWord(SubSeq(word, 1, Len(word) - 1), mw)
  ELSE word

\* The candidate line of one iteration.
testLineNoSpace(ln, word) == ln \o word

testLine(ln, word) == IF ln # <<>> THEN ln \o <<" ">> \o word ELSE word

descCell(at, ln, y) ==
  Cell(at, marginInches, y, GetStringWidth(ln, descFontSize), descCellHeight,
       ln, "L", descFontSize)

\* The body of the loop for one word, up to the cutoff test: the new line
\* buffer, the new cursor and the cells drawn.
wrapWordDropsWord(ln, y, word) ==
  IF GetStringWidth(testLine(ln, word), descFontSize) > maxWidth
  THEN IF ln # <<>>
       THEN [line |-> <<>>, yPos |-> y + descLineStep,
             drawn |-> <<descCell(146, ln, y)>>]
       ELSE [line |-> truncateWord(word, maxWidth), yPos |-> y, drawn |-> <<>>]
  ELSE [line |-> testLine(ln, word), yPos |-> y, drawn |-> <<>>]

wrapWord(ln, y, word) ==
  IF GetStringWidth(testLine(ln, word), descFontSize) > maxWidth
  THEN IF ln # <<>>
       THEN [line |-> word, yPos |-> y + descLineStep,
             drawn |-> <<descCell(146, ln, y)>>]
       ELSE [line |-> truncateWord(word, maxWidth), yPos |-> y, drawn |-> <<>>]
  ELSE [line |-> testLine(ln, word), yPos |-> y, drawn |-> <<>>]

\* The cutoff test at the end of each iteration.
loopNeverBreaks(y) == FALSE

loopBreaks(y) == y > maxY

\* The test guarding the last line.
lastLineIgnoresY(ln, y) == ln # <<>>

lastLineDrawn(ln, y) == ln # <<>> /\ y <= maxY

\* ------------------------------------------------------------ bottom fields
bottomY == pageWidthInches - marginInches - (6 * Inch) \div 10
qrSize == (5 * Inch) \div 10
qrY == pageWidthInches - marginInches - qrSize
qrX == pageHeightInches - marginInches - qrSize
bottomCellHeight == (3 * Inch) \div 10

barcodeText(d) == <<"B", "C", ":", " ">> \o d.Barcode
skuText(d) == <<"S", "K", "U", ":", " ">> \o d.SKU
returnByText(d) == <<"R", "e", "t", "u", "r", "n", " ", "B", "y", ":", " ">> \o d.ReturnDate
borrowedText(d) == <<"B", "o", "r", "r", "o", "w", "e", "d", ":", " ">> \o d.CheckoutDate
returnToText(d) == <<"R", "e", "t", "u", "r", "n", " ", "T", "o", ":", " ">> \o d.ReturnLocation

\* drawBottomInfo's three cells.
bottomCells(d) ==
  LET bw == GetStringWidth(barcodeText(d), barcodeFontSize + 1)
      rw == GetStringWidth(returnByText(d), priceFontSize)
  IN << Cell(194, pageWidthInches - marginInches - bw,
             bottomY - (35 * Inch) \div 100, bw, bottomCellHeight,
             barcodeText(d), "R", barcodeFontSize + 1),
        Cell(200, marginInches, bottomY, contentWidth, bottomCellHeight,
             skuText(d), "C", skuFontSize + 1),
        Cell(206, pageWidthInches - marginInches - rw, bottomY, rw,
             bottomCellHeight, returnByText(d), "R", priceFontSize) >>

\* drawQRCodes' two text cells.
qrTextCells(d) ==
  << Cell(226, marginInches, qrY - (8 * Inch) \div 10,
          GetStringWidth(borrowedText(d), priceFontSize), bottomCellHeight,
          borrowedText(d), "L", priceFontSize),
     Cell(233, marginInches, qrY - (5 * Inch) \div 10,
          GetStringWidth(returnToText(d), priceFontSize), bottomCellHeight,
          returnToText(d), "L", priceFontSize) >>

\* drawQRCodes' label cell and image placement.
qrImageCells ==
  LET lw == GetStringWidth(qrLabel, 8)
  IN << Cell(248, qrX + (qrSize - lw) \div 2, qrY - (15 * Inch) \div 100, lw,
             (1 * Inch) \div 10, qrLabel, "C", 8),
        Cell(252, qrX, qrY, qrSize, qrSize, qrFilename, "", 0) >>

\* Whether drawQRCodes enters the QR branch at all.
qrWanted(url) == TrimSpace(url) # <<>>

\* generateQRCode: a blank URL is skipped without error; otherwise
\* qrcode.WriteFile either writes the image (ok) or returns an error.
generateQRCode(url, ok) ==
  IF TrimSpace(url) = <<>> THEN [err |-> FALSE, wrote |-> FALSE]
  ELSE [err |-> ~ok, wrote |-> ok]

\* The files left after drawQRCodes' clean-up of a created image.
qrCleanupOnSuccessOnly(fs, embedOK) == IF embedOK THEN fs \ {qrFilename} ELSE fs

qrCleanup(fs, embedOK) == fs \ {qrFilename}

\* drawBorder's rectangle.
borderCell == Cell(263, marginInches, marginInches, contentWidth, contentHeight, <<>>, "", 0)

\* generatePDF's return value once the layout is done, from the outcome of
\* OutputFileAndClose (which fails on the PDF's sticky error or on I/O).
saveResultWithQRError(perr, io, q) ==
  IF perr \/ io # "ok" \/ q.genErr THEN ErrSave ELSE Nil

saveResult(perr, io, q) == IF perr \/ io # "ok" THEN ErrSave ELSE Nil

\* ------------------------------------------------------------ the form
\* What the user types into the three entries the model edits.
Inputs(f) ==
  CASE f = "Title" -> {<<>>, <<" ">>, <<" ", "a">>, DefaultTitle}
    [] f = "URL1" -> {<<>>, <<" ">>, DefaultURL1}
    [] f = "SKU" -> {<<>>, <<"A", " ", "1">>, DefaultSKU}

EditableFields == {"Title", "URL1", "SKU"}

\* The locals of a pass before generatePDF has run.
NoPass ==
  [data |-> ClearedEntries, pdfCreated |-> FALSE, cells |-> <<>>,
   words |-> <<>>, wordIdx |-> 1, line |-> <<>>, yPos |-> 0, pc |-> "idle"]

\* The locals of a pass on entry to drawDescription's loop: generatePDF has
\* accepted the title, createPDF and drawTitle have run.
layoutStart(d) ==
  [data |-> d, pdfCreated |-> TRUE, cells |-> <<titleCell(d.Title)>>,
   words |-> Fields(d.Description), wordIdx |-> 1, line |-> <<>>,
   yPos |-> descStartY,
   pc |-> IF Fields(d.Description) = <<>> THEN "last" ELSE "wrap"]

Init ==
  /\ entries = DefaultEntries
  /\ statusLabel = <<"Ready to generate PDF">>
  /\ dialog = <<"none">>
  /\ files = {}
  /\ pc = "idle"
  /\ data = NoPass.data
  /\ pdfCreated = FALSE
  /\ pdfErr = FALSE
  /\ cells = <<>>
  /\ words = <<>>
  /\ wordIdx = 1
  /\ line = <<>>
  /\ yPos = 0
  /\ qr = NoQR
  /\ saveIO = "none"
  /\ result = NoResult

\* A handler starts with the previous pass's locals gone.
ForgetPass ==
  /\ data' = NoPass.data
  /\ pdfCreated' = FALSE
  /\ pdfErr' = FALSE
  /\ cells' = <<>>
  /\ words' = <<>>
  /\ wordIdx' = 1
  /\ line' = <<>>
  /\ yPos' = 0
  /\ qr' = NoQR
  /\ saveIO' = "none"
  /\ result' = NoResult

\* The user replaces the text of one entry.
EditEntry ==
  /\ pc \in {"idle", "done"}
  /\ \E f \in EditableFields : \E v \in Inputs(f) :
       entries' = [entries EXCEPT ![f] = v]
  /\ ForgetPass
  /\ pc' = "idle"
  /\ dialog' = <<"none">>
  /\ UNCHANGED <<statusLabel, files>>

\* The Clear Fields button.
clearFields ==
  /\ pc \in {"idle", "done"}
  /\ entries' = ClearedEntries
  /\ statusLabel' = <<"Fields cleared">>
  /\ ForgetPass
  /\ pc' = "idle"
  /\ dialog' = <<"none">>
  /\ UNCHANGED files

\* The Generate PDF button: the snapshot, generatePDF's validation and, for
\* an accepted title, createPDF, AddPage, drawTitle and drawDescription's
\* set-up.  A rejected title ends the handler at once.
GenerateClick ==
  /\ pc \in {"idle", "done"}
  /\ data' = entries
  /\ pdfErr' = FALSE
  /\ qr' = NoQR
  /\ saveIO' = "none"
  /\ IF titleRejected(entries.Title)
     THEN /\ result' = ErrTitle
          /\ statusLabel' = <<"Error: ">> \o ErrTitle
          /\ dialog' = <<"error">> \o ErrTitle
          /\ pdfCreated' = FALSE
          /\ cells' = <<>>
          /\ words' = <<>>
          /\ wordIdx' = 1
          /\ line' = <<>>
          /\ yPos' = 0
          /\ pc' = "done"
     ELSE LET s == layoutStart(entries)
          IN /\ result' = NoResult
             /\ dialog' = <<"none">>
             /\ pdfCreated' = s.pdfCreated
             /\ cells' = s.cells
             /\ words' = s.words
             /\ wordIdx' = s.wordIdx
             /\ line' = s.line
             /\ yPos' = s.yPos
             /\ pc' = s.pc
             /\ UNCHANGED statusLabel
  /\ UNCHANGED <<entries, files>>

\* One iteration of drawDescription's loop, cutoff test included.
WrapWordStep ==
  /\ pc = "wrap"
  /\ LET r == wrapWord(line, yPos, words[wordIdx])
     IN /\ line' = r.line
        /\ yPos' = r.yPos
        /\ cells' = cells \o r.drawn
        /\ pc' = IF loopBreaks(r.yPos) \/ wordIdx = Len(words) THEN "last" ELSE "wrap"
  /\ wordIdx' = wordIdx + 1
  /\ UNCHANGED <<entries, statusLabel, dialog, files, data, pdfCreated, pdfErr,
                 words, qr, saveIO, result>>

\* drawDescription after the loop.
WrapLastLine ==
  /\ pc = "last"
  /\ cells' = IF lastLineDrawn(line, yPos)
              THEN cells \o <<descCell(165, line, yPos)>> ELSE cells
  /\ pc' = "bottom"
  /\ UNCHANGED <<entries, statusLabel, dialog, files, data, pdfCreated, pdfErr,
                 words, wordIdx, line, yPos, qr, saveIO, result>>

\* drawBottomInfo, drawQRCodes included.  qrOK is whether qrcode.WriteFile
\* succeeds, embedOK whether pdf.Image can embed the written file; a failed
\* embed sets the PDF's sticky error.  os.Remove runs after the embed.
DrawBottomInfo ==
  /\ pc = "bottom"
  /\ \E qrOK \in BOOLEAN : \E embedOK \in BOOLEAN :
       LET base == cells \o bottomCells(data) \o qrTextCells(data)
           want == qrWanted(data.URL1)
           g == generateQRCode(data.URL1, qrOK)
           branch == want /\ ~g.err
           embedded == branch /\ g.wrote /\ embedOK
       IN /\ cells' = IF branch THEN base \o qrImageCells ELSE base
          /\ qr' = [created |-> want /\ g.wrote, embedTried |-> branch,
                    embedOK |-> embedded, removed |-> branch,
                    genErr |-> want /\ g.err]
          /\ files' = IF branch
                      THEN qrCleanup(IF g.wrote THEN files \cup {qrFilename} ELSE files,
                                     embedded)
                      ELSE files
          /\ pdfErr' = (branch /\ ~embedded)
  /\ pc' = "save"
  /\ UNCHANGED <<entries, statusLabel, dialog, data, pdfCreated, words, wordIdx,
                 line, yPos, saveIO, result>>

\* drawBorder, then generatePDF's save and the handler's report.  The file
\* is created unless the PDF holds an error or os.Create fails ("nocreate");
\* a failed write leaves it partial.
SavePDF ==
  /\ pc = "save"
  /\ \E io \in {"ok", "nocreate", "partial"} :
       LET filename == generateFilename(data.SKU)
           r == saveResult(pdfErr, io, qr)
       IN /\ saveIO' = IF pdfErr THEN "skipped" ELSE io
          /\ files' = IF ~pdfErr /\ io \in {"ok", "partial"}
                      THEN files \cup {filename} ELSE files
          /\ result' = r
          /\ statusLabel' = IF r = Nil THEN <<"PDF saved: ">> \o filename
                            ELSE <<"Error: ">> \o r
          /\ dialog' = IF r = Nil THEN <<"info", "PDF saved: ">> \o filename
                       ELSE <<"error">> \o r
  /\ cells' = cells \o <<borderCell>>
  /\ pc' = "done"
  /\ UNCHANGED <<entries, data, pdfCreated, pdfErr, words, wordIdx, line, yPos, qr>>

Next ==
  \/ EditEntry
  \/ clearFields
  \/ GenerateClick
  \/ WrapWordStep
  \/ WrapLastLine
  \/ DrawBottomInfo
  \/ SavePDF

Spec == Init /\ [][Next]_vars

\* ------------------------------------------------------------ the wrap alone
Str(n, c) == [i \in 1..n |-> c]

WordKinds == {Str(ShortLen, "b"), Str(LongLen, "a"), Str(HugeLen, "c")}

\* The descriptions WrapSpec explores.
WrapDescriptions ==
  {Join(p \o [i \in 1..f |-> Str(LongLen, "a")]) :
     p \in UNION {[1..k -> WordKinds] : k \in 0..MaxVaried}, f \in 0..MaxFill}

\* drawDescription entered from the constructed form with the description
\* replaced by one of WrapDescriptions.
WrapInit ==
  \E d \in WrapDescriptions :
    LET e == [DefaultEntries EXCEPT !.Description = d]
        s == layoutStart(e)
    IN /\ entries = e
       /\ statusLabel = <<"Ready to generate PDF">>
       /\ dialog = <<"none">>
       /\ files = {}
       /\ pc = s.pc
       /\ data = s.data
       /\ pdfCreated = s.pdfCreated
       /\ pdfErr = FALSE
       /\ cells = s.cells
       /\ words = s.words
       /\ wordIdx = s.wordIdx
       /\ line = s.line
       /\ yPos = s.yPos
       /\ qr = NoQR
       /\ saveIO = "none"
       /\ result = NoResult

WrapNext ==
  \/ WrapWordStep
  \/ WrapLastLine

\* The pass runs on: a step that can be taken is taken.
WrapSpec == WrapInit /\ [][WrapNext]_vars /\ WF_vars(WrapNext)

\* ------------------------------------------------------------ claims
\* The description lines drawn so far: the CellFormat calls of
\* drawDescription (line 146 in the loop, line 165 after it).
DescCells == SelectSeq(cells, LAMBDA c : c.at \in {146, 165})

IsBlank(s) == \A i \in 1..Len(s) : IsSpace(s[i])

\* C1: every description line drawn measures at most maxWidth.
C1_WidthBound ==
  \A i \in 1..Len(DescCells) :
    GetStringWidth(DescCells[i].txt, descFontSize) <= maxWidth

\* C2: every description line drawn lies inside the printable area of the
\* landscape page: its bottom is at most the page height less the margin.
C2_NoPageOverflow ==
  \A i \in 1..Len(DescCells) :
    /\ DescCells[i].y >= marginInches
    /\ DescCells[i].y + DescCells[i].h <= pageH - marginInches

\* ceil((maxY - startY) / lineHeight) + 1
WrapLineBound == ((maxY - descStartY) + descLineStep - 1) \div descLineStep + 1

\* C3: the wrap loop terminates, and it never draws more than
\* ceil((maxY - startY) / lineHeight) + 1 lines.
C3_TerminatesWithinLineBound ==
  /\ [](Len(DescCells) <= WrapLineBound)
  /\ <>(pc = "bottom")

\* C3's case: the cutoff stopped the loop with words left over.
C3_Witness ==
  /\ pc = "bottom"
  /\ wordIdx <= Len(words)
  /\ Len(DescCells) + 1 >= WrapLineBound - 1

\* C4: a Generate click on a blank title returns "title is required" with no
\* PDF created, no drawing call made, no file written and the status label
\* set to the error text, whatever preceded the click.
C4_BlankTitleRejected ==
  [][(pc \in {"idle", "done"} /\ pc' # "idle" /\ IsBlank(entries.Title))
       => /\ result' = <<"title is required">>
          /\ statusLabel' = <<"Error: ", "title is required">>
          /\ pc' = "done"
          /\ ~pdfCreated'
          /\ cells' = <<>>
          /\ files' = files
          /\ qr' = NoQR
          /\ saveIO' = "none"]_vars

\* C4's case: a whitespace-only title rejected after an earlier pass saved
\* a PDF.
C4_Witness ==
  /\ pc = "done"
  /\ data.Title = <<" ">>
  /\ result = <<"title is required">>
  /\ files # {}

TitleAndSaveResult ==
  IF IsBlank(data.Title) THEN <<"title is required">>
  ELSE IF saveIO = "ok" THEN <<"nil">> ELSE <<"failed to save PDF: ">>

\* C6: the QR image is created and embedded only for a non-blank URL whose
\* QR generation succeeded; a blank URL creates no file and attempts no
\* embed; a failed generation omits the image; and in both of these cases
\* the pass returns, and reports, what the title check and the save give.
C6_QRNeverFailsGeneration ==
  pc = "done" =>
    /\ (qr.created \/ qr.embedTried) => (~IsBlank(data.URL1) /\ ~qr.genErr)
    /\ (IsBlank(data.URL1) \/ qr.genErr) =>
         /\ ~qr.created
         /\ ~qr.embedTried
         /\ \A i \in 1..Len(cells) : cells[i].at \notin {248, 252}
         /\ result = TitleAndSaveResult
         /\ statusLabel =
              IF result = <<"nil">>
              THEN <<"PDF saved: ">> \o generateFilename(data.SKU)
              ELSE <<"Error: ">> \o TitleAndSaveResult

\* C6's case: QR generation failed and the pass still saved the PDF.
C6_Witness ==
  /\ pc = "done"
  /\ qr.genErr
  /\ result = <<"nil">>
  /\ generateFilename(data.SKU) \in files

\* The horizontal extent of a cell's text under its alignment.
TextWidth(c) == GetStringWidth(c.txt, c.size)
TextLeft(c) ==
  CASE c.align = "L" -> c.x
    [] c.align = "C" -> c.x + (c.w - TextWidth(c)) \div 2
    [] c.align = "R" -> c.x + c.w - TextWidth(c)
TextRight(c) == TextLeft(c) + TextWidth(c)

BottomCells == SelectSeq(cells, LAMBDA c : c.at \in {194, 200, 206, 226, 233})

\* C7: with the default field values, any two bottom texts whose vertical
\* extents intersect have disjoint horizontal extents, and each lies inside
\* the content area of the landscape page.
C7_BottomFieldsDisjoint ==
  (/\ pc \in {"save", "done"}
   /\ pdfCreated
   /\ data.SKU = DefaultSKU
   /\ data.Barcode = DefaultBarcode
   /\ data.ReturnDate = DefaultReturnDate
   /\ data.CheckoutDate = DefaultCheckoutDate
   /\ data.ReturnLocation = DefaultReturnLocation)
  => /\ \A i, j \in 1..Len(BottomCells) :
          LET a == BottomCells[i]
              b == BottomCells[j]
          IN (i < j /\ a.y < b.y + b.h /\ b.y < a.y + a.h)
               => (TextRight(a) <= TextLeft(b) \/ TextRight(b) <= TextLeft(a))
     /\ \A i \in 1..Len(BottomCells) :
          LET a == BottomCells[i]
          IN /\ marginInches <= TextLeft(a)
             /\ TextRight(a) <= pageW - marginInches
             /\ marginInches <= a.y
             /\ a.y + a.h <= pageH - marginInches

\* The wrap as specified: the cutoff is tested before each word, and the
\* trailing buffer is emitted only at or above maxY.
RECURSIVE SpecTruncate(_)
SpecTruncate(w) ==
  IF GetStringWidth(w, descFontSize) <= maxWidth THEN w
  ELSE SpecTruncate(SubSeq(w, 1, Len(w) - 1))

RECURSIVE SpecWrap(_, _, _, _)
SpecWrap(ws, i, buf, y) ==
  IF i > Len(ws) \/ y > maxY
  THEN IF buf # <<>> /\ y <= maxY THEN << <<buf, y>> >> ELSE <<>>
  ELSE LET cand == IF buf = <<>> THEN ws[i] ELSE buf \o <<" ">> \o ws[i]
       IN IF GetStringWidth(cand, descFontSize) <= maxWidth
          THEN SpecWrap(ws, i + 1, cand, y)
          ELSE IF buf # <<>>
               THEN << <<buf, y>> >> \o SpecWrap(ws, i + 1, ws[i], y + descLineStep)
               ELSE SpecWrap(ws, i + 1, SpecTruncate(ws[i]), y)

\* C8: the (line, y) pairs drawn by drawDescription are exactly those of the
\* specified wrap, and none is drawn below maxY.
C8_CutoffEquivalence ==
  /\ \A i \in 1..Len(DescCells) : DescCells[i].y <= maxY
  /\ pc = "bottom" =>
       [i \in 1..Len(DescCells) |-> <<DescCells[i].txt, DescCells[i].y>>]
         = SpecWrap(words, 1, <<>>, descStartY)

\* C8's case: the cursor passed maxY with a buffer and words left, and both
\* were discarded.
C8_Witness ==
  /\ pc = "bottom"
  /\ yPos > maxY
  /\ line # <<>>
  /\ wordIdx <= Len(words)
  /\ DescCells[Len(DescCells)].at = 146

\* The number of input words on the first i lines drawn.
RECURSIVE WordsOnLines(_)
WordsOnLines(i) ==
  IF i = 0 THEN 0 ELSE WordsOnLines(i - 1) + Len(Fields(DescCells[i].txt))

\* C9: a line drawn inside the loop was closed because the next input word
\* did not fit behind it, and the next line starts with exactly that word.
C9_GreedyFill ==
  \A i \in 1..Len(DescCells) :
    DescCells[i].at = 146 =>
      LET n == WordsOnLines(i) + 1
      IN /\ n <= Len(words)
         /\ GetStringWidth(DescCells[i].txt \o <<" ">> \o words[n], descFontSize)
              > maxWidth
         /\ i < Len(DescCells) => Fields(DescCells[i + 1].txt)[1] = words[n]
         /\ (i = Len(DescCells) /\ pc \in {"wrap", "last"}) =>
              (line # <<>> /\ Fields(line)[1] = words[n])

\* C9's case: a line of two words closed by a third, which opens the next.
C9_Witness ==
  /\ pc = "bottom"
  /\ Len(DescCells) >= 2
  /\ DescCells[1].at = 146
  /\ Len(Fields(DescCells[1].txt)) = 2
  /\ DescCells[2].at = 146

\* C10: when every word fits a line by itself and the cursor never passed
\* maxY, the lines drawn, joined by single spaces, are the description's
\* words joined by single spaces.
C10_ContentPreserved ==
  (/\ pc = "bottom"
   /\ \A k \in 1..Len(words) : GetStringWidth(words[k], descFontSize) <= maxWidth
   /\ yPos <= maxY)
  => Join([i \in 1..Len(DescCells) |-> DescCells[i].txt]) = Join(words)

\* C10's case: several words on several lines, all kept.
C10_Witness ==
  /\ pc = "bottom"
  /\ yPos <= maxY
  /\ \A k \in 1..Len(words) : GetStringWidth(words[k], descFontSize) <= maxWidth
  /\ Len(DescCells) >= 3
  /\ Len(words) > Len(DescCells)

====
